---- MODULE Spec2Model ----
(***************************************************************************)
(* A model of src/src/option/option.ts: the Option container (_Option),    *)
(* its synchronous combinators, its mutating operations and the deferred   *)
(* replace(Promise) protocol.                                              *)
(*                                                                         *)
(* Option instances are objects of a heap (a sequence; an object's         *)
(* reference is its index).  A method is an operator from the heap, the    *)
(* receiver and the arguments to the heap after the call and what the call *)
(* returned or threw.  A caller-supplied callback is given by its outcome  *)
(* on the one argument the method can pass it.                             *)
(***************************************************************************)
EXTENDS Integers, Sequences, FiniteSets, TLC

\* Bounds of the model: the Options the caller holds on to at a time, the
\* replace(Promise) calls made while synchronous calls interleave (Spec), and
\* the replace(Promise) calls made when nothing else runs (SpecOrder).
MaxObjects == 2
MaxDeferred == 1
MaxOutstanding == 2

VARIABLES
  heap,      \* the _Option instances: <<[phantom, value], ...>>
  deferred,  \* the replace(Promise) calls made so far, in call order
  jobs,      \* the promise-reaction job queue: indices into deferred
  settled,   \* indices into deferred, in the order their source promises settled
  ran,       \* indices into deferred, in the order their reactions ran
  ret        \* the last call and its result, until the caller takes it

vars == <<heap, deferred, jobs, settled, ran, ret>>

----------------------------------------------------------------------------
\* Values of type T, and the private empty marker.

Num(n) == [t |-> "int", v |-> n]
nothing == [t |-> "nothing", v |-> 0]
isNothing(x) == x = nothing

PlainValues == {Num(1), Num(2)}

\* Values that are Results, Ok(v) and Err(v), and values that are Options.
OkOf(v) == [t |-> "ok", v |-> v.v]
ErrOf(v) == [t |-> "err", v |-> v.v]
SomeValue(v) == [t |-> "some", v |-> v.v]
NoneValue == [t |-> "none", v |-> 0]

ResultValues == {OkOf(v) : v \in PlainValues} \cup {ErrOf(v) : v \in PlainValues}
OptionValues == {SomeValue(v) : v \in PlainValues} \cup {NoneValue}
Values == PlainValues \cup ResultValues \cup OptionValues

isResult(x) == x.t \in {"ok", "err"}
isOption(x) == x.t \in {"some", "none"}

----------------------------------------------------------------------------
\* What a call hands back: a value, a boolean, a reference to an Option, or
\* a thrown error.

Return(val) == [k |-> "value", val |-> val]
ReturnBool(b) == [k |-> "bool", b |-> b]
ReturnRef(r) == [k |-> "ref", ref |-> r]
Throw(e) == [k |-> "throw", err |-> e]
\* A PendingOption (made from the Option ref, or from a promise when ref = 0),
\* a Result holding a value, a Result holding an Option, a string.
ReturnPending(r) == [k |-> "pending", ref |-> r]
ReturnResult(res, val) == [k |-> "result", res |-> res, val |-> val]
ReturnResultRef(res, r) == [k |-> "resultRef", res |-> res, ref |-> r]
ReturnString(text) == [k |-> "string", text |-> text]

\* Thrown values: an Error, a value that is no Error, an AnyError.
PlainError == [any |-> FALSE, reason |-> "Error", cause |-> "none"]
NonError == [any |-> FALSE, reason |-> "NonError", cause |-> "none"]
AnyError(reason, cause) == [any |-> TRUE, reason |-> reason, cause |-> cause]
isAnyError(e) == e.any

\* mkAnyError that hands e on as the cause whatever e is.
mkAnyError_original(reason, e) == AnyError(reason, e.reason)

mkAnyError(reason, e) ==
  AnyError(reason, IF e = NonError THEN "Error(stringify)" ELSE e.reason)

----------------------------------------------------------------------------
\* The object: its two fields, the constructor, the private setters.

NewObject == [phantom |-> "none", value |-> nothing]

\* #setValue that stores the value and leaves the tag as it was.
setValue_keepsTag(h, o, value) == [h EXCEPT ![o].value = value]

setValue(h, o, value) ==
  [h EXCEPT ![o] = [phantom |-> IF isNothing(value) THEN "none" ELSE "some",
                    value |-> value]]

replaceValue(h, o, newValue) ==
  [heap |-> setValue(h, o, newValue), old |-> h[o].value]

takeValue(h, o) == replaceValue(h, o, nothing)

construct(h, hasArg, value) ==
  LET h1 == Append(h, NewObject)
  IN  IF hasArg THEN setValue(h1, Len(h1), value) ELSE h1

some(h, value) == [heap |-> construct(h, TRUE, value), out |-> ReturnRef(Len(h) + 1)]

none(h) == [heap |-> construct(h, FALSE, nothing), out |-> ReturnRef(Len(h) + 1)]

isNone(h, o) == h[o].value = nothing

isSome(h, o) == ~isNone(h, o)

\* The `value` getter.
value(h, o) ==
  IF isNothing(h[o].value)
    THEN Throw(AnyError("NoneValueAccessed", "none"))
    ELSE Return(h[o].value)

----------------------------------------------------------------------------
\* Caller-supplied callbacks, each given by its outcome on the argument the
\* method passes it: it returns, or it throws one of the thrown values.

Thrown == {PlainError, NonError, AnyError("NoneUnwrapped", "none")}

ValOut == {Return(v) : v \in PlainValues} \cup {Throw(e) : e \in Thrown}

PredOut == {ReturnBool(b) : b \in BOOLEAN} \cup {Throw(e) : e \in Thrown}

\* The callbacks of the calls that interleave with deferred replaces: one
\* that returns each result, one that throws.
SomeValOut == {Return(v) : v \in PlainValues} \cup {Throw(PlainError)}

SomePredOut == {ReturnBool(b) : b \in BOOLEAN} \cup {Throw(PlainError)}

\* A callback that returns an Option it constructs, or a promise of one.
OptOut ==
  {[k |-> "option", value |-> v] : v \in PlainValues \cup {nothing}}
    \cup {[k |-> "promise"]} \cup {Throw(e) : e \in Thrown}

\* A callback that returns an Option it constructs.
SyncOptOut == {f \in OptOut : f.k # "promise"}

\* An argument that is an Option or a promise of one.
isPromise(x) == x.k = "promise"

\* The argument list of a callback that takes none.
unit == [t |-> "unit", v |-> 0]

\* What a method did: the heap after it, what it returned or threw, and the
\* arguments it called its callback with, in order.
Did(h, out, calls) == [heap |-> h, out |-> out, calls |-> calls]

----------------------------------------------------------------------------
\* The mutating methods and clone.

\* clone() that hands back the receiver itself.
clone_alias(h, o) == Did(h, ReturnRef(o), <<>>)

clone(h, o) ==
  LET n == IF isNone(h, o) THEN none(h) ELSE some(h, h[o].value)
  IN  Did(n.heap, n.out, <<>>)

\* getOrInsert(x) that stores x whatever the Option holds.
getOrInsert_overwrites(h, o, x) ==
  LET h1 == setValue(h, o, x)
  IN  Did(h1, value(h1, o), <<>>)

getOrInsert(h, o, x) ==
  LET h1 == IF isNone(h, o) THEN setValue(h, o, x) ELSE h
  IN  Did(h1, value(h1, o), <<>>)

\* getOrInsertWith(f) that rethrows an AnyError thrown by f as it is.
getOrInsertWith_rethrows(h, o, f) ==
  IF isNone(h, o)
    THEN IF f.k = "throw"
           THEN IF isAnyError(f.err)
                  THEN Did(h, f, <<unit>>)
                  ELSE Did(h, Throw(mkAnyError("PredicateException", f.err)), <<unit>>)
           ELSE LET h1 == setValue(h, o, f.val)
                IN  Did(h1, value(h1, o), <<unit>>)
    ELSE Did(h, value(h, o), <<>>)

getOrInsertWith(h, o, f) ==
  IF isNone(h, o)
    THEN IF f.k = "throw"
           THEN Did(h, Throw(mkAnyError("PredicateException", f.err)), <<unit>>)
           ELSE LET h1 == setValue(h, o, f.val)
                IN  Did(h1, value(h1, o), <<unit>>)
    ELSE Did(h, value(h, o), <<>>)

insert(h, o, x) ==
  LET h1 == setValue(h, o, x)
  IN  Did(h1, value(h1, o), <<>>)

\* replace(x) that hands back an Option of the new value.
replace_returnsNew(h, o, x) ==
  LET r == replaceValue(h, o, x)
      n == some(r.heap, x)
  IN  Did(n.heap, n.out, <<>>)

\* replace(x) with x no promise.
replace(h, o, x) ==
  LET r == replaceValue(h, o, x)
      n == IF isNothing(r.old) THEN none(r.heap) ELSE some(r.heap, r.old)
  IN  Did(n.heap, n.out, <<>>)

take(h, o) ==
  IF isNone(h, o)
    THEN LET n == none(h) IN Did(n.heap, n.out, <<>>)
    ELSE LET r == takeValue(h, o)
             n == IF isNothing(r.old) THEN none(r.heap) ELSE some(r.heap, r.old)
         IN  Did(n.heap, n.out, <<>>)

\* takeIf(f) that takes the value before it asks f.
takeIf_takesFirst(h, o, f) ==
  LET r == takeValue(h, o)
      n == IF f.k = "bool" /\ f.b /\ ~isNothing(r.old)
             THEN some(r.heap, r.old)
             ELSE none(r.heap)
  IN  Did(n.heap, n.out, IF isNothing(r.old) THEN <<>> ELSE <<r.old>>)

takeIf(h, o, f) ==
  IF isNone(h, o)
    THEN LET n == none(h) IN Did(n.heap, n.out, <<>>)
    ELSE IF f.k = "bool" /\ f.b
           THEN LET r == takeValue(h, o)
                    n == IF isNothing(r.old) THEN none(r.heap)
                                             ELSE some(r.heap, r.old)
                IN  Did(n.heap, n.out, <<h[o].value>>)
           ELSE LET n == none(h) IN Did(n.heap, n.out, <<h[o].value>>)

----------------------------------------------------------------------------
\* The methods that do not write the slot.

\* pendingOption(this.clone())
toPendingOption(h, o) ==
  LET c == clone(h, o)
  IN  Did(c.heap, ReturnPending(c.out.ref), <<>>)

and(h, o, x) ==
  IF isPromise(x)
    THEN toPendingOption(h, o)
    ELSE IF isNone(h, o)
           THEN LET n == none(h) IN Did(n.heap, n.out, <<>>)
           ELSE Did(h, ReturnRef(x.ref), <<>>)

andThen(h, o, f) ==
  IF isNone(h, o)
    THEN LET n == none(h) IN Did(n.heap, n.out, <<>>)
    ELSE IF f.k = "throw"
           THEN LET n == none(h) IN Did(n.heap, n.out, <<h[o].value>>)
           ELSE IF isPromise(f)
                  THEN Did(h, ReturnPending(0), <<h[o].value>>)
                  ELSE LET n == IF isNothing(f.value) THEN none(h)
                                                      ELSE some(h, f.value)
                       IN  Did(n.heap, n.out, <<h[o].value>>)

expect(h, o) ==
  IF isSome(h, o)
    THEN Did(h, value(h, o), <<>>)
    ELSE Did(h, Throw(AnyError("NoneExpected", "none")), <<>>)

filter(h, o, f) ==
  IF isNone(h, o)
    THEN LET n == none(h) IN Did(n.heap, n.out, <<>>)
    ELSE LET n == IF f.k = "bool" /\ f.b THEN some(h, h[o].value) ELSE none(h)
         IN  Did(n.heap, n.out, <<h[o].value>>)

flatten(h, o) ==
  IF isNone(h, o)
    THEN LET n == none(h) IN Did(n.heap, n.out, <<>>)
    ELSE IF isOption(h[o].value)
           THEN LET n == IF h[o].value = NoneValue
                           THEN none(h)
                           ELSE some(h, Num(h[o].value.v))
                IN  Did(n.heap, n.out, <<>>)
           ELSE LET n == some(h, h[o].value) IN Did(n.heap, n.out, <<>>)

inspect(h, o, f) ==
  LET calls == IF isSome(h, o) THEN <<h[o].value>> ELSE <<>>
      v == value(h, o)
  IN  IF v.k = "throw"
        THEN Did(h, v, calls)
        ELSE LET n == some(h, v.val) IN Did(n.heap, n.out, calls)

\* isNoneOr(f) that answers true when f throws.
isNoneOr_trueOnThrow(h, o, f) ==
  IF isNone(h, o)
    THEN Did(h, ReturnBool(TRUE), <<>>)
    ELSE IF f.k = "throw"
           THEN Did(h, ReturnBool(TRUE), <<h[o].value>>)
           ELSE Did(h, ReturnBool(f.b), <<h[o].value>>)

isNoneOr(h, o, f) ==
  IF isNone(h, o)
    THEN Did(h, ReturnBool(TRUE), <<>>)
    ELSE IF f.k = "throw"
           THEN Did(h, ReturnBool(FALSE), <<h[o].value>>)
           ELSE Did(h, ReturnBool(f.b), <<h[o].value>>)

\* On None, f(this.value) throws in the getter, inside the try.
isSomeAnd(h, o, f) ==
  IF isSome(h, o)
    THEN Did(h, ReturnBool(TRUE), <<>>)
    ELSE LET v == value(h, o)
         IN  IF v.k = "throw" \/ f.k = "throw"
               THEN Did(h, ReturnBool(FALSE), IF v.k = "throw" THEN <<>> ELSE <<v.val>>)
               ELSE Did(h, ReturnBool(f.b), <<v.val>>)

\* map(f) that lets what f throws through.
map_rethrows(h, o, f) ==
  IF isNone(h, o)
    THEN LET n == none(h) IN Did(n.heap, n.out, <<>>)
    ELSE IF f.k = "throw"
           THEN Did(h, f, <<h[o].value>>)
           ELSE LET n == some(h, f.val) IN Did(n.heap, n.out, <<h[o].value>>)

map(h, o, f) ==
  IF isNone(h, o)
    THEN LET n == none(h) IN Did(n.heap, n.out, <<>>)
    ELSE LET n == IF f.k = "throw" THEN none(h) ELSE some(h, f.val)
         IN  Did(n.heap, n.out, <<h[o].value>>)

mapOr(h, o, def, f) ==
  IF isNone(h, o)
    THEN Did(h, Return(def), <<>>)
    ELSE IF f.k = "throw"
           THEN Did(h, Return(def), <<h[o].value>>)
           ELSE Did(h, f, <<h[o].value>>)

\* The makeDefault closure of mapOrElse.
makeDefault(mkDef) ==
  IF mkDef.k = "throw"
    THEN Throw(mkAnyError("PredicateException", mkDef.err))
    ELSE mkDef

\* calls: f's argument, then unit when mkDef is called.
mapOrElse(h, o, mkDef, f) ==
  IF isNone(h, o)
    THEN Did(h, makeDefault(mkDef), <<unit>>)
    ELSE IF f.k = "throw"
           THEN IF isAnyError(f.err)
                  THEN Did(h, f, <<h[o].value>>)
                  ELSE Did(h, makeDefault(mkDef), <<h[o].value, unit>>)
           ELSE Did(h, f, <<h[o].value>>)

match(h, o, f, g) ==
  LET r == IF isSome(h, o) THEN f ELSE g
      calls == IF isSome(h, o) THEN <<h[o].value>> ELSE <<unit>>
  IN  IF r.k = "throw"
        THEN IF isAnyError(r.err)
               THEN Did(h, r, calls)
               ELSE Did(h, Throw(mkAnyError("PredicateException", r.err)), calls)
        ELSE Did(h, r, calls)

okOr(h, o, y) ==
  IF isSome(h, o)
    THEN Did(h, ReturnResult("ok", h[o].value), <<>>)
    ELSE Did(h, ReturnResult("err", y), <<>>)

okOrElse(h, o, mkErr) ==
  IF isSome(h, o)
    THEN Did(h, ReturnResult("ok", h[o].value), <<>>)
    ELSE IF mkErr.k = "throw"
           THEN Did(h, mkErr, <<unit>>)
           ELSE Did(h, ReturnResult("err", mkErr.val), <<unit>>)

or(h, o, x) ==
  IF isPromise(x)
    THEN toPendingOption(h, o)
    ELSE IF isSome(h, o)
           THEN LET n == some(h, h[o].value) IN Did(n.heap, n.out, <<>>)
           ELSE Did(h, ReturnRef(x.ref), <<>>)

orElse(h, o, f) ==
  IF isSome(h, o)
    THEN LET n == some(h, h[o].value) IN Did(n.heap, n.out, <<>>)
    ELSE IF f.k = "option"
           THEN LET n == IF isNothing(f.value) THEN none(h) ELSE some(h, f.value)
                IN  Did(n.heap, n.out, <<unit>>)
           ELSE LET n == none(h) IN Did(n.heap, n.out, <<unit>>)

\* stringify(x), kept apart from x.
stringify(x) == <<"text of", x>>

toString(h, o) ==
  IF isNone(h, o)
    THEN Did(h, ReturnString(<<"None">>), <<>>)
    ELSE Did(h, ReturnString(<<"Some {", stringify(h[o].value), "}">>), <<>>)

\* transposeResult() that keeps a value that is no Result.
transposeResult_keeps(h, o) ==
  IF isNone(h, o)
    THEN LET n == none(h) IN Did(n.heap, ReturnResultRef("ok", n.out.ref), <<>>)
    ELSE IF ~isResult(h[o].value)
           THEN LET n == some(h, h[o].value)
                IN  Did(n.heap, ReturnResultRef("ok", n.out.ref), <<>>)
           ELSE IF h[o].value.t = "ok"
                  THEN LET n == some(h, Num(h[o].value.v))
                       IN  Did(n.heap, ReturnResultRef("ok", n.out.ref), <<>>)
                  ELSE Did(h, ReturnResult("err", Num(h[o].value.v)), <<>>)

transposeResult(h, o) ==
  IF isNone(h, o) \/ ~isResult(h[o].value)
    THEN LET n == none(h) IN Did(n.heap, ReturnResultRef("ok", n.out.ref), <<>>)
    ELSE IF h[o].value.t = "ok"
           THEN LET n == some(h, Num(h[o].value.v))
                IN  Did(n.heap, ReturnResultRef("ok", n.out.ref), <<>>)
           ELSE Did(h, ReturnResult("err", Num(h[o].value.v)), <<>>)

transposeAwaitable(h, o) ==
  IF isNone(h, o)
    THEN LET n == none(h) IN Did(n.heap, ReturnPending(n.out.ref), <<>>)
    ELSE Did(h, ReturnPending(0), <<>>)

unwrap(h, o) ==
  IF isSome(h, o)
    THEN Did(h, value(h, o), <<>>)
    ELSE Did(h, Throw(AnyError("NoneUnwrapped", "none")), <<>>)

\* unwrapOr(def) that stores def in an empty Option, as getOrInsert does.
unwrapOr_inserts(h, o, def) ==
  LET h1 == IF isNone(h, o) THEN setValue(h, o, def) ELSE h
  IN  Did(h1, value(h1, o), <<>>)

unwrapOr(h, o, def) ==
  IF isSome(h, o) THEN Did(h, value(h, o), <<>>) ELSE Did(h, Return(def), <<>>)

unwrapOrElse(h, o, mkDef) ==
  IF isSome(h, o)
    THEN Did(h, value(h, o), <<>>)
    ELSE IF mkDef.k = "throw"
           THEN IF isAnyError(mkDef.err)
                  THEN Did(h, mkDef, <<unit>>)
                  ELSE Did(h, Throw(mkAnyError("PredicateException", mkDef.err)), <<unit>>)
           ELSE Did(h, mkDef, <<unit>>)

xor(h, o, y) ==
  IF isPromise(y)
    THEN toPendingOption(h, o)
    ELSE LET n == IF isNone(h, o) /\ isSome(h, y.ref)
                    THEN some(h, h[y.ref].value)
                    ELSE IF isSome(h, o) /\ isNone(h, y.ref)
                           THEN some(h, h[o].value)
                           ELSE none(h)
         IN  Did(n.heap, n.out, <<>>)

----------------------------------------------------------------------------
\* replace(x) with x a promise.  A promise is pending, fulfilled with a
\* value, or rejected.  x.then(onFulfilled, onRejected) registers a reaction
\* on x; the reaction is queued as a job when x settles (at once when x has
\* settled already), the jobs run one at a time in queue order, and the
\* promise that `then` returned (the trigger) settles when its job has run.

Pending == [st |-> "pending", val |-> nothing]
Fulfilled(v) == [st |-> "fulfilled", val |-> v]
Rejected == [st |-> "rejected", val |-> nothing]

Settlements == {Fulfilled(v) : v \in PlainValues} \cup {Rejected}
PromiseStates == {Pending} \cup Settlements

\* The reaction's two callbacks: (val) => { this.#setValue(val) }, and noop.
\* Each gives the heap after it, the number of writes to the slot it made,
\* and whether it returned (the trigger is then fulfilled) or threw (rejected).
onFulfilled_noWrite(h, o, val) == [heap |-> h, writes |-> 0, ok |-> TRUE]

onFulfilled(h, o, val) == [heap |-> setValue(h, o, val), writes |-> 1, ok |-> TRUE]

\* A rejection handler that empties the slot.
onRejected_clears(h, o) == [heap |-> setValue(h, o, nothing), writes |-> 1, ok |-> TRUE]

onRejected(h, o) == [heap |-> h, writes |-> 0, ok |-> TRUE]

reaction(h, d) ==
  IF d.x.st = "fulfilled" THEN onFulfilled(h, d.this, d.x.val)
                          ELSE onRejected(h, d.this)

\* The job queue.
enqueue_front(js, i) == <<i>> \o js

enqueue(js, i) == Append(js, i)

nextJob(js) == Head(js)

dequeue(js) == Tail(js)

\* replace(x) that writes at once when x has been fulfilled already.
replacePromise_eager(h, ds, js, o, x) ==
  LET h0 == IF x.st = "fulfilled" THEN setValue(h, o, x.val) ELSE h
      c == clone(h, o)
      d == [this |-> o, x |-> x, trigger |-> "pending", snap |-> c.out.ref,
            driven |-> FALSE, writes |-> 0]
      i == Len(ds) + 1
  IN  [heap |-> [c.heap EXCEPT ![o] = h0[o]], deferred |-> Append(ds, d),
       jobs |-> IF x.st = "pending" THEN js ELSE enqueue(js, i),
       out |-> [k |-> "pair", ref |-> c.out.ref, trigger |-> i]]

\* replace(x): `then` first, then [this.clone(), promise].  `driven` and
\* `writes` are history: whether the caller has awaited the trigger, and how
\* many times the reaction has written the slot.
replacePromise(h, ds, js, o, x) ==
  LET c == clone(h, o)
      d == [this |-> o, x |-> x, trigger |-> "pending", snap |-> c.out.ref,
            driven |-> FALSE, writes |-> 0]
      i == Len(ds) + 1
  IN  [heap |-> c.heap, deferred |-> Append(ds, d),
       jobs |-> IF x.st = "pending" THEN js ELSE enqueue(js, i),
       out |-> [k |-> "pair", ref |-> c.out.ref, trigger |-> i]]

----------------------------------------------------------------------------
\* The state machine.

Idle == [op |-> "idle"]

Objects == 1..Len(heap)

\* The instance the deferred replaces are made on: the one Init constructs.
Live == Len(<<NewObject>>)

\* The Option a call returned, as it was when the call returned.
Returned(h, out) ==
  IF out.k \in {"ref", "pair", "pending", "resultRef"} /\ out.ref \in DOMAIN h
    THEN h[out.ref]
    ELSE NewObject

\* The heap the caller is left with: an Option the call constructed stays
\* on it when the caller keeps the reference, and is garbage otherwise.
Kept(h, r, keep) == IF keep THEN r.heap ELSE SubSeq(r.heap, 1, Len(h))

\* A synchronous call of method op on o that did r.
Call(op, o, args, r, keep) ==
  /\ ret = Idle
  /\ keep => Len(heap) < Len(r.heap) /\ Len(r.heap) <= MaxObjects
  /\ heap' = Kept(heap, r, keep)
  /\ ret' = [op |-> op, this |-> o, args |-> args, out |-> r.out,
             obj |-> Returned(r.heap, r.out), calls |-> r.calls]
  /\ UNCHANGED <<deferred, jobs, settled, ran>>

Clone(o, keep) == Call("clone", o, <<>>, clone(heap, o), keep)

GetOrInsert(o, x) == Call("getOrInsert", o, <<x>>, getOrInsert(heap, o, x), FALSE)

GetOrInsertWith(o, f) ==
  Call("getOrInsertWith", o, <<f>>, getOrInsertWith(heap, o, f), FALSE)

Insert(o, x) == Call("insert", o, <<x>>, insert(heap, o, x), FALSE)

Replace(o, x, keep) == Call("replace", o, <<x>>, replace(heap, o, x), keep)

Take(o, keep) == Call("take", o, <<>>, take(heap, o), keep)

TakeIf(o, f, keep) == Call("takeIf", o, <<f>>, takeIf(heap, o, f), keep)

\* replace(x) with x a promise in state x.
ReplacePromise(o, x, keep) ==
  LET r == replacePromise(heap, deferred, jobs, o, x)
  IN  /\ ret = Idle
      /\ keep => Len(r.heap) <= MaxObjects
      /\ heap' = Kept(heap, r, keep)
      /\ deferred' = IF keep THEN r.deferred
                             ELSE [r.deferred EXCEPT ![Len(r.deferred)].snap = 0]
      /\ jobs' = r.jobs
      /\ ret' = [op |-> "replacePromise", this |-> o, args |-> <<x>>, out |-> r.out,
                 obj |-> Returned(r.heap, r.out), calls |-> <<>>]
      /\ UNCHANGED <<settled, ran>>

\* The source promise of deferred replace i settles.
Settle(i, s) ==
  /\ ret = Idle
  /\ deferred[i].x = Pending
  /\ deferred' = [deferred EXCEPT ![i].x = s]
  /\ jobs' = enqueue(jobs, i)
  /\ settled' = Append(settled, i)
  /\ UNCHANGED <<heap, ran, ret>>

\* The next reaction job runs, and its trigger settles.
RunJob ==
  /\ ret = Idle
  /\ jobs # <<>>
  /\ LET i == nextJob(jobs)
         r == reaction(heap, deferred[i])
     IN  /\ heap' = r.heap
         /\ deferred' = [deferred EXCEPT ![i].trigger = IF r.ok THEN "fulfilled"
                                                                ELSE "rejected",
                                         ![i].writes = @ + r.writes]
         /\ jobs' = dequeue(jobs)
         /\ ran' = Append(ran, i)
  /\ UNCHANGED <<settled, ret>>

\* The caller awaits (or chains on) the trigger of deferred replace i.
Await(i) ==
  /\ ret = Idle
  /\ ~deferred[i].driven
  /\ deferred' = [deferred EXCEPT ![i].driven = TRUE]
  /\ ret' = [op |-> "await", this |-> deferred[i].this, args |-> <<i>>]
  /\ UNCHANGED <<heap, jobs, settled, ran>>

\* The caller takes the result of the last call.
Resume ==
  /\ ret # Idle
  /\ ret' = Idle
  /\ UNCHANGED <<heap, deferred, jobs, settled, ran>>

\* One Option, constructed by some(v) or none().
Init ==
  /\ \E v \in PlainValues \cup {nothing} :
       heap = construct(<<>>, ~isNothing(v), v)
  /\ deferred = <<>>
  /\ jobs = <<>>
  /\ settled = <<>>
  /\ ran = <<>>
  /\ ret = Idle

Next ==
  \/ \E o \in Objects, keep \in BOOLEAN : Clone(o, keep)
  \/ \E o \in Objects, x \in PlainValues : GetOrInsert(o, x)
  \/ \E o \in Objects, f \in SomeValOut : GetOrInsertWith(o, f)
  \/ \E o \in Objects, x \in PlainValues : Insert(o, x)
  \/ \E o \in Objects, x \in PlainValues, keep \in BOOLEAN : Replace(o, x, keep)
  \/ \E o \in Objects, keep \in BOOLEAN : Take(o, keep)
  \/ \E o \in Objects, f \in SomePredOut, keep \in BOOLEAN : TakeIf(o, f, keep)
  \/ /\ Len(deferred) < MaxDeferred
     /\ \E x \in PromiseStates, keep \in BOOLEAN : ReplacePromise(Live, x, keep)
  \/ \E i \in DOMAIN deferred, s \in Settlements : Settle(i, s)
  \/ RunJob
  \/ Resume

Spec == Init /\ [][Next]_vars

\* The same, with callers that await the triggers.
NextAwait == Next \/ \E i \in DOMAIN deferred : Await(i)

SpecAwait == Init /\ [][NextAwait]_vars

\* Several replace(Promise) calls on the live instance and nothing else.
NextOrder ==
  \/ /\ Len(deferred) < MaxOutstanding
     /\ \E x \in PromiseStates, keep \in BOOLEAN : ReplacePromise(Live, x, keep)
  \/ \E i \in DOMAIN deferred, s \in Settlements : Settle(i, s)
  \/ RunJob
  \/ Resume

SpecOrder == Init /\ [][NextOrder]_vars

----------------------------------------------------------------------------
\* The synchronous methods alone, on two Options: a receiver and an Option
\* to pass as an argument.  The caller keeps no Option a call returns.

And(o, x) == Call("and", o, <<x>>, and(heap, o, x), FALSE)

AndThen(o, f) == Call("andThen", o, <<f>>, andThen(heap, o, f), FALSE)

Expect(o) == Call("expect", o, <<>>, expect(heap, o), FALSE)

Filter(o, f) == Call("filter", o, <<f>>, filter(heap, o, f), FALSE)

Flatten(o) == Call("flatten", o, <<>>, flatten(heap, o), FALSE)

Inspect(o, f) == Call("inspect", o, <<f>>, inspect(heap, o, f), FALSE)

IsNone(o) == Call("isNone", o, <<>>, Did(heap, ReturnBool(isNone(heap, o)), <<>>), FALSE)

IsNoneOr(o, f) == Call("isNoneOr", o, <<f>>, isNoneOr(heap, o, f), FALSE)

IsSome(o) == Call("isSome", o, <<>>, Did(heap, ReturnBool(isSome(heap, o)), <<>>), FALSE)

IsSomeAnd(o, f) == Call("isSomeAnd", o, <<f>>, isSomeAnd(heap, o, f), FALSE)

Map(o, f) == Call("map", o, <<f>>, map(heap, o, f), FALSE)

MapOr(o, def, f) == Call("mapOr", o, <<def, f>>, mapOr(heap, o, def, f), FALSE)

MapOrElse(o, mkDef, f) ==
  Call("mapOrElse", o, <<mkDef, f>>, mapOrElse(heap, o, mkDef, f), FALSE)

Match(o, f, g) == Call("match", o, <<f, g>>, match(heap, o, f, g), FALSE)

OkOr(o, y) == Call("okOr", o, <<y>>, okOr(heap, o, y), FALSE)

OkOrElse(o, mkErr) == Call("okOrElse", o, <<mkErr>>, okOrElse(heap, o, mkErr), FALSE)

Or(o, x) == Call("or", o, <<x>>, or(heap, o, x), FALSE)

OrElse(o, f) == Call("orElse", o, <<f>>, orElse(heap, o, f), FALSE)

ToPendingOption(o) == Call("toPendingOption", o, <<>>, toPendingOption(heap, o), FALSE)

ToStringOf(o) == Call("toString", o, <<>>, toString(heap, o), FALSE)

TransposeResult(o) == Call("transposeResult", o, <<>>, transposeResult(heap, o), FALSE)

TransposeAwaitable(o) ==
  Call("transposeAwaitable", o, <<>>, transposeAwaitable(heap, o), FALSE)

Unwrap(o) == Call("unwrap", o, <<>>, unwrap(heap, o), FALSE)

UnwrapOr(o, def) == Call("unwrapOr", o, <<def>>, unwrapOr(heap, o, def), FALSE)

UnwrapOrElse(o, mkDef) ==
  Call("unwrapOrElse", o, <<mkDef>>, unwrapOrElse(heap, o, mkDef), FALSE)

Xor(o, y) == Call("xor", o, <<y>>, xor(heap, o, y), FALSE)

OptionArgs == {[k |-> "ref", ref |-> n] : n \in Objects} \cup {[k |-> "promise"]}

InitSync ==
  /\ \E v, w \in Values \cup {nothing} :
       heap = construct(construct(<<>>, ~isNothing(v), v), ~isNothing(w), w)
  /\ deferred = <<>>
  /\ jobs = <<>>
  /\ settled = <<>>
  /\ ran = <<>>
  /\ ret = Idle

NextSync ==
  \/ \E o \in Objects, x \in OptionArgs : And(o, x)
  \/ \E o \in Objects, f \in OptOut : AndThen(o, f)
  \/ \E o \in Objects : Clone(o, FALSE)
  \/ \E o \in Objects : Expect(o)
  \/ \E o \in Objects, f \in PredOut : Filter(o, f)
  \/ \E o \in Objects : Flatten(o)
  \/ \E o \in Objects, x \in PlainValues : GetOrInsert(o, x)
  \/ \E o \in Objects, f \in ValOut : GetOrInsertWith(o, f)
  \/ \E o \in Objects, x \in PlainValues : Insert(o, x)
  \/ \E o \in Objects, f \in ValOut : Inspect(o, f)
  \/ \E o \in Objects : IsNone(o)
  \/ \E o \in Objects, f \in PredOut : IsNoneOr(o, f)
  \/ \E o \in Objects : IsSome(o)
  \/ \E o \in Objects, f \in PredOut : IsSomeAnd(o, f)
  \/ \E o \in Objects, f \in ValOut : Map(o, f)
  \/ \E o \in Objects, def \in PlainValues, f \in ValOut : MapOr(o, def, f)
  \/ \E o \in Objects, mkDef \in ValOut, f \in ValOut : MapOrElse(o, mkDef, f)
  \/ \E o \in Objects, f \in ValOut, g \in ValOut : Match(o, f, g)
  \/ \E o \in Objects, y \in PlainValues : OkOr(o, y)
  \/ \E o \in Objects, mkErr \in ValOut : OkOrElse(o, mkErr)
  \/ \E o \in Objects, x \in OptionArgs : Or(o, x)
  \/ \E o \in Objects, f \in SyncOptOut : OrElse(o, f)
  \/ \E o \in Objects, x \in PlainValues : Replace(o, x, FALSE)
  \/ \E o \in Objects : Take(o, FALSE)
  \/ \E o \in Objects, f \in PredOut : TakeIf(o, f, FALSE)
  \/ \E o \in Objects : ToPendingOption(o)
  \/ \E o \in Objects : ToStringOf(o)
  \/ \E o \in Objects : TransposeResult(o)
  \/ \E o \in Objects : TransposeAwaitable(o)
  \/ \E o \in Objects : Unwrap(o)
  \/ \E o \in Objects, def \in PlainValues : UnwrapOr(o, def)
  \/ \E o \in Objects, mkDef \in ValOut : UnwrapOrElse(o, mkDef)
  \/ \E o \in Objects, y \in OptionArgs : Xor(o, y)
  \/ Resume

SpecSync == InitSync /\ [][NextSync]_vars

----------------------------------------------------------------------------
\* Reading a step.

SomeOf(v) == [phantom |-> "some", value |-> v]

\* The methods that write the slot of their receiver.
Mutators == {"insert", "getOrInsert", "getOrInsertWith", "replace", "take", "takeIf"}

\* This step is a synchronous call.
Called == ret = Idle /\ ret' # Idle

\* This step is a synchronous call on o.
CalledOn(o) == Called /\ ret'.this = o

\* This step is a call of a mutating method on o.
SyncWrite(o) == CalledOn(o) /\ ret'.op \in Mutators

\* This step is a replace(Promise) call; it made deferred replace Len(deferred').
CalledReplacePromise == Len(deferred') = Len(deferred) + 1

\* This step ran the reaction of deferred replace i.
Ran(i) == ran' = Append(ran, i)

\* This step ran a reaction on o.
RanOn(o) == \E j \in DOMAIN deferred : Ran(j) /\ deferred[j].this = o

Position(seq, i) == CHOOSE n \in DOMAIN seq : seq[n] = i

Members(seq) == {seq[n] : n \in DOMAIN seq}

----------------------------------------------------------------------------
\* C1: replace(p) on an Option in state s returns [snapshot, trigger] with the
\* snapshot a new Option in state s and leaves the live instance in state s;
\* until the reaction runs, a step that is no call on the live instance
\* leaves its slot alone; the reaction of a p fulfilled with b leaves the live
\* instance occupied(b); and the snapshot keeps its state in every step that
\* is no mutating call on the snapshot itself.
C1_DeferredReplace ==
  /\ [][CalledReplacePromise =>
          LET d == deferred'[Len(deferred')]
          IN  /\ ret'.op = "replacePromise"
              /\ ret'.obj = heap[d.this]
              /\ heap'[d.this] = heap[d.this]
              /\ d.trigger = "pending"
              /\ d.snap # 0 => d.snap \notin DOMAIN heap /\ heap'[d.snap] = heap[d.this]]_vars
  /\ [][\A i \in DOMAIN deferred :
          LET o == deferred[i].this
          IN  (deferred[i].trigger = "pending" /\ ~CalledOn(o) /\ ~RanOn(o))
                => heap'[o] = heap[o]]_vars
  /\ [][\A i \in DOMAIN deferred :
          (Ran(i) /\ deferred[i].x.st = "fulfilled")
            => /\ heap'[deferred[i].this] = SomeOf(deferred[i].x.val)
               /\ deferred'[i].trigger = "fulfilled"]_vars
  /\ [][\A i \in DOMAIN deferred :
          LET n == deferred[i].snap
          IN  (n # 0 /\ ~SyncWrite(n) /\ ~RanOn(n)) => heap'[n] = heap[n]]_vars

\* A deferred replace of occupied(a) by b has been applied: the live instance
\* is occupied(b), the snapshot the caller kept is still occupied(a).
C1_Witness ==
  \E i \in DOMAIN deferred :
    LET d == deferred[i]
    IN  /\ d.trigger = "fulfilled"
        /\ d.x.st = "fulfilled"
        /\ d.snap # 0
        /\ heap[d.snap].phantom = "some"
        /\ heap[d.snap].value # d.x.val
        /\ heap[d.this] = SomeOf(d.x.val)

\* C2: the reaction of a rejected promise writes nothing: the heap is the same
\* after it as before it, the trigger is fulfilled (no failure), and the
\* deferred replace has made no write in any state.
C2_RejectionWritesNothing ==
  /\ [][\A i \in DOMAIN deferred :
          (Ran(i) /\ deferred[i].x.st = "rejected")
            => /\ heap' = heap
               /\ deferred'[i].trigger = "fulfilled"]_vars
  /\ [](\A i \in DOMAIN deferred :
          deferred[i].x.st = "rejected" => deferred[i].writes = 0)

\* The reaction of a rejected promise has run on an occupied live instance.
C2_Witness ==
  \E i \in DOMAIN deferred :
    /\ deferred[i].x.st = "rejected"
    /\ deferred[i].trigger = "fulfilled"
    /\ heap[deferred[i].this].phantom = "some"

\* C3: with several deferred replaces on one Option, each has written once
\* when its promise was fulfilled and its reaction has run, and never
\* otherwise; a reaction runs only after its promise has settled; those whose
\* promises settled after the call run in the order the promises settled; and
\* when all of them settled after the call and all have run, the slot holds
\* the value of the promise fulfilled last, if one was fulfilled.
C3_SettlementOrder ==
  /\ \A i \in DOMAIN deferred :
       LET d == deferred[i]
       IN  /\ d.writes = IF d.trigger # "pending" /\ d.x.st = "fulfilled" THEN 1 ELSE 0
           /\ (d.trigger # "pending") = (i \in Members(ran))
           /\ i \in Members(ran) => d.x.st # "pending"
  /\ \A i, j \in Members(ran) \cap Members(settled) :
       Position(ran, i) < Position(ran, j)
         <=> Position(settled, i) < Position(settled, j)
  /\ Len(ran) = Cardinality(Members(ran))
  /\ (/\ deferred # <<>>
      /\ Members(settled) = DOMAIN deferred
      /\ Members(ran) = DOMAIN deferred)
       => LET won == {n \in DOMAIN settled : deferred[settled[n]].x.st = "fulfilled"}
          IN  won # {} =>
                \E n \in won :
                  /\ \A m \in won : m <= n
                  /\ heap[Live] = SomeOf(deferred[settled[n]].x.val)

\* The second-invoked settled first and wrote first; the first-invoked
\* settled later and overwrote it.
C3_Witness ==
  /\ Len(deferred) >= 2
  /\ settled = <<2, 1>>
  /\ ran = <<2, 1>>
  /\ deferred[1].x.st = "fulfilled"
  /\ deferred[2].x.st = "fulfilled"
  /\ deferred[1].x.val # deferred[2].x.val
  /\ heap[Live] = SomeOf(deferred[1].x.val)

\* C4, as claimed: while the trigger of a deferred replace is pending, no
\* step changes the slot of the live instance.
C4_SlotFrozenUntilSettled ==
  [][\A i \in DOMAIN deferred :
       (deferred[i].trigger = "pending" /\ deferred'[i].trigger = "pending")
         => heap'[deferred[i].this] = heap[deferred[i].this]]_vars

\* C4, amended: while the trigger of a deferred replace is pending (the
\* replace(p) call included), the deferred replace has made no write, and a
\* step changes the slot of the live instance only when it is a call of a
\* mutating method on that instance or the reaction of another deferred
\* replace on it.
C4_OnlyOthersWrite ==
  /\ [][\A i \in DOMAIN deferred' :
          LET o == deferred'[i].this
          IN  (deferred'[i].trigger = "pending" /\ heap'[o] # heap[o])
                => \/ SyncWrite(o)
                   \/ \E j \in DOMAIN deferred : j # i /\ Ran(j) /\ deferred[j].this = o]_vars
  /\ [](\A i \in DOMAIN deferred :
          deferred[i].trigger = "pending" => deferred[i].writes = 0)

\* insert() has just changed the live instance under a pending deferred
\* replace: it now differs from the snapshot taken at the call.
C4_Witness ==
  \E i \in DOMAIN deferred :
    LET d == deferred[i]
    IN  /\ d.trigger = "pending"
        /\ d.writes = 0
        /\ ret.op = "insert"
        /\ ret.this = d.this
        /\ d.snap # 0
        /\ heap[d.snap] # heap[d.this]

\* C5, as claimed: a deferred replace whose trigger the caller has not
\* awaited has not written the slot.
C5_AbandonedNeverWrites ==
  \A i \in DOMAIN deferred : deferred[i].writes > 0 => deferred[i].driven

\* C6: the Option that clone(), take(), replace(x) or replace(p) returns is a
\* new object, none of those on the heap, in the state the receiver had before
\* the call; and a step changes the slot of an Option only when it is a call
\* of a mutating method on that very Option or a reaction of a deferred
\* replace made on it, so a call on the live instance never changes a
\* snapshot and a call on a snapshot never changes the live instance.
C6_SnapshotsIndependent ==
  /\ [][(Called /\ ret'.op \in {"clone", "take", "replace", "replacePromise"})
          => /\ ret'.out.ref \notin DOMAIN heap
             /\ ret'.obj = heap[ret'.this]
             /\ Len(heap') > Len(heap) => heap'[ret'.out.ref] = heap[ret'.this]]_vars
  /\ [][\A o \in DOMAIN heap :
          heap'[o] # heap[o] => SyncWrite(o) \/ RanOn(o)]_vars

\* The caller kept a snapshot of an occupied instance and then changed one
\* of the two: they differ now.
C6_Witness ==
  /\ Len(heap) >= 2
  /\ ret.op \in Mutators
  /\ heap[Live] # heap[2]
  /\ \E o \in DOMAIN heap : o # ret.this /\ heap[o].phantom = "some"

----------------------------------------------------------------------------
\* The methods that only read the slot of their receiver.
NonMutators ==
  {"isSome", "isNone", "isSomeAnd", "isNoneOr", "map", "mapOr", "mapOrElse",
   "filter", "andThen", "inspect", "and", "or", "orElse", "xor", "match",
   "okOr", "okOrElse", "flatten", "clone", "expect", "unwrap", "unwrapOr",
   "unwrapOrElse", "transposeResult", "transposeAwaitable", "toPendingOption",
   "toString"}

\* C7: a call of a method other than insert, getOrInsert, getOrInsertWith,
\* replace, take and takeIf leaves the slot of every Option as it was, whether
\* the call returns or throws; a call that changes the slot of its receiver
\* is a call of one of those six.
C7_OnlyMutatorsWrite ==
  [][Called =>
       /\ ret'.op \in NonMutators \cup Mutators
       /\ ret'.op \in NonMutators => \A o \in DOMAIN heap : heap'[o] = heap[o]
       /\ heap'[ret'.this] # heap[ret'.this] => ret'.op \in Mutators]_vars

\* match() has thrown on an occupied Option, and the Option is still occupied.
C7_Witness ==
  /\ ret # Idle
  /\ ret.op = "match"
  /\ ret.out.k = "throw"
  /\ heap[ret.this].phantom = "some"

\* C8, as claimed: isSomeAnd(f) calls f with the contained value when the
\* Option is occupied, and returns true exactly when the Option is occupied
\* and f returns true; false when empty, when f returns false, when f throws.
C8_IsSomeAnd ==
  [][(Called /\ ret'.op = "isSomeAnd") =>
       LET o == ret'.this
           f == ret'.args[1]
       IN  /\ ret'.calls = IF isSome(heap, o) THEN <<heap[o].value>> ELSE <<>>
           /\ ret'.out = ReturnBool(isSome(heap, o) /\ f = ReturnBool(TRUE))]_vars

\* C9, as claimed: isNoneOr(f) returns true on an empty Option, what f returns
\* on an occupied one, and true when f throws.
C9_TrueWhenThrows ==
  [][(Called /\ ret'.op = "isNoneOr") =>
       LET o == ret'.this
           f == ret'.args[1]
       IN  ret'.out = ReturnBool(isNone(heap, o) \/ f = ReturnBool(TRUE) \/ f.k = "throw")]_vars

\* C9, amended: isNoneOr(f) returns true on an empty Option without calling
\* f, what f returns on an occupied one, and false when f throws; it never
\* throws.
C9_FalseWhenThrows ==
  [][(Called /\ ret'.op = "isNoneOr") =>
       LET o == ret'.this
           f == ret'.args[1]
       IN  /\ ret'.calls = IF isSome(heap, o) THEN <<heap[o].value>> ELSE <<>>
           /\ ret'.out = ReturnBool(isNone(heap, o) \/ f = ReturnBool(TRUE))]_vars

\* isNoneOr(f) has returned false on an occupied Option whose f threw.
C9_Witness ==
  /\ ret # Idle
  /\ ret.op = "isNoneOr"
  /\ ret.args[1].k = "throw"
  /\ heap[ret.this].phantom = "some"
  /\ ret.out = ReturnBool(FALSE)

\* C10, as claimed: inspect(f) never throws; it calls f once with the
\* contained value on an occupied Option and not at all on an empty one, and
\* returns a new Option in the state of the receiver.
C10_InspectNeverFails ==
  [][(Called /\ ret'.op = "inspect") =>
       LET o == ret'.this
       IN  /\ ret'.calls = IF isSome(heap, o) THEN <<heap[o].value>> ELSE <<>>
           /\ ret'.out.k = "ref"
           /\ ret'.out.ref \notin DOMAIN heap
           /\ ret'.obj = heap[o]]_vars

----------------------------------------------------------------------------
\* The state of an empty Option.
Empty == NewObject

\* This step is a call that returned a new Option, none of those on the heap.
ReturnedNew == ret'.out.k = "ref" /\ ret'.out.ref \notin DOMAIN heap

\* C11: map(f), filter(f) and andThen(f) on an occupied Option whose f throws
\* (an Error, a value that is no Error, an AnyError) return a new empty
\* Option and do not throw, and on an empty Option they return without
\* calling f; orElse(f) on an empty Option whose f throws returns a new empty
\* Option and does not throw, and on an occupied Option it returns without
\* calling f.
C11_ThrowingCallbackGivesEmpty ==
  /\ [][(Called /\ ret'.op \in {"map", "filter", "andThen"}) =>
          LET o == ret'.this
              f == ret'.args[1]
          IN  /\ isNone(heap, o) => ret'.calls = <<>> /\ ret'.out.k # "throw"
              /\ (isSome(heap, o) /\ f.k = "throw")
                   => ReturnedNew /\ ret'.obj = Empty /\ ret'.calls = <<heap[o].value>>]_vars
  /\ [][(Called /\ ret'.op = "orElse") =>
          LET o == ret'.this
              f == ret'.args[1]
          IN  /\ isSome(heap, o) => ret'.calls = <<>> /\ ret'.out.k # "throw"
              /\ (isNone(heap, o) /\ f.k = "throw")
                   => ReturnedNew /\ ret'.obj = Empty /\ ret'.calls = <<unit>>]_vars

\* map(f) has returned an empty Option on an occupied Option whose f threw an
\* AnyError.
C11_Witness ==
  /\ ret # Idle
  /\ ret.op = "map"
  /\ ret.args[1] = Throw(AnyError("NoneUnwrapped", "none"))
  /\ heap[ret.this].phantom = "some"
  /\ ret.out.k = "ref"
  /\ ret.obj = Empty

\* C12: takeIf(f) on an occupied Option whose f returns true leaves the
\* Option empty and returns a new Option occupied by the value it held; when
\* f returns false or throws, or the Option is empty, every slot stays as it
\* was and the call returns a new empty Option; it never throws, and it calls
\* f only on an occupied Option.
C12_TakeIf ==
  [][(Called /\ ret'.op = "takeIf") =>
       LET o == ret'.this
           f == ret'.args[1]
       IN  /\ ReturnedNew
           /\ ret'.calls = IF isSome(heap, o) THEN <<heap[o].value>> ELSE <<>>
           /\ IF isSome(heap, o) /\ f = ReturnBool(TRUE)
                THEN /\ heap'[o] = Empty
                     /\ ret'.obj = heap[o]
                     /\ \A n \in DOMAIN heap : n # o => heap'[n] = heap[n]
                ELSE /\ \A n \in DOMAIN heap : heap'[n] = heap[n]
                     /\ ret'.obj = Empty]_vars

\* takeIf(f) with f returning true has emptied an Option and returned its
\* value in a new one.
C12_Witness ==
  /\ ret # Idle
  /\ ret.op = "takeIf"
  /\ ret.args[1] = ReturnBool(TRUE)
  /\ heap[ret.this] = Empty
  /\ ret.obj.phantom = "some"

----------------------------------------------------------------------------
\* The cause of err is the thrown value e itself.
CauseIs(err, e) == err.cause = e.reason

\* The cause of err is a new Error made of the stringified thrown value.
CauseIsStringified(err) == err.cause = "Error(stringify)"

----------------------------------------------------------------------------
\* out is a thrown AnyError of reason PredicateException.
PredicateException(out) ==
  /\ out.k = "throw"
  /\ isAnyError(out.err)
  /\ out.err.reason = "PredicateException"

\* out is a thrown PredicateException whose cause is e, or a new Error made
\* of the stringified e when e is no Error.
Wraps(out, e) ==
  /\ PredicateException(out)
  /\ IF e = NonError THEN CauseIsStringified(out.err) ELSE CauseIs(out.err, e)

\* The callback a defaulting method needed and called in this step: f of
\* getOrInsertWith and mkDef of unwrapOrElse on an empty Option, mkDef of
\* mapOrElse when it was called, f or g of match.
Needed ==
  LET o == ret'.this
  IN  CASE ret'.op = "getOrInsertWith" /\ isNone(heap, o) -> ret'.args[1]
        [] ret'.op = "unwrapOrElse" /\ isNone(heap, o) -> ret'.args[1]
        [] ret'.op = "mapOrElse" /\ ret'.calls[Len(ret'.calls)] = unit -> ret'.args[1]
        [] ret'.op = "match" /\ isSome(heap, o) -> ret'.args[1]
        [] ret'.op = "match" /\ isNone(heap, o) -> ret'.args[2]
        [] OTHER -> Return(nothing)

----------------------------------------------------------------------------
\* C15, as claimed: mapOrElse(mkDef, f) on an occupied Option returns what f
\* returns; when f throws, whatever it throws, mkDef is called and its result
\* returned, and the call throws only if mkDef throws; on an empty Option f
\* is not called and the result of mkDef is returned.
C15_FailureOfFNeverRethrown ==
  [][(Called /\ ret'.op = "mapOrElse") =>
       LET o == ret'.this
           mkDef == ret'.args[1]
           f == ret'.args[2]
           viaMkDef == /\ mkDef.k = "value" => ret'.out = mkDef
                       /\ mkDef.k = "throw" <=> ret'.out.k = "throw"
       IN  IF isNone(heap, o)
             THEN ret'.calls = <<unit>> /\ viaMkDef
             ELSE IF f.k = "throw"
                    THEN ret'.calls = <<heap[o].value, unit>> /\ viaMkDef
                    ELSE ret'.calls = <<heap[o].value>> /\ ret'.out = f]_vars

----------------------------------------------------------------------------
\* This step returned Ok of a new Option in state obj.
ReturnedOkOf(obj) ==
  /\ ret'.out.k = "resultRef"
  /\ ret'.out.res = "ok"
  /\ ret'.out.ref \notin DOMAIN heap
  /\ ret'.obj = obj

\* C16, as claimed: transposeResult() gives Ok(empty) on an empty Option,
\* Ok(occupied(v)) on one holding Ok(v), Err(e) on one holding Err(e), and
\* Ok(occupied(value)) on one holding a value that is no Result.
C16_NonResultKept ==
  [][(Called /\ ret'.op = "transposeResult") =>
       LET x == heap[ret'.this].value
       IN  CASE isNothing(x) -> ReturnedOkOf(Empty)
             [] x.t = "ok" -> ReturnedOkOf(SomeOf(Num(x.v)))
             [] x.t = "err" -> ret'.out = ReturnResult("err", Num(x.v))
             [] OTHER -> ReturnedOkOf(SomeOf(x))]_vars

\* C16, amended: as claimed for an empty Option and for one holding Ok(v) or
\* Err(e); on an Option holding a value that is no Result transposeResult()
\* gives Ok(empty).
C16_NonResultDropped ==
  [][(Called /\ ret'.op = "transposeResult") =>
       LET x == heap[ret'.this].value
       IN  CASE isNothing(x) -> ReturnedOkOf(Empty)
             [] x.t = "ok" -> ReturnedOkOf(SomeOf(Num(x.v)))
             [] x.t = "err" -> ret'.out = ReturnResult("err", Num(x.v))
             [] OTHER -> ReturnedOkOf(Empty)]_vars

\* transposeResult() has returned Ok(empty) on an Option holding a plain
\* value.
C16_Witness ==
  /\ ret # Idle
  /\ ret.op = "transposeResult"
  /\ heap[ret.this].value \in PlainValues
  /\ ret.out.k = "resultRef"
  /\ ret.out.res = "ok"
  /\ ret.obj = Empty

----------------------------------------------------------------------------
\* C17: getOrInsert(x) on an empty Option leaves it occupied(x) and returns
\* x; on an Option holding v it returns v and leaves every slot as it was,
\* whatever x is.  After the call the Option is occupied, so every later
\* getOrInsert finds it occupied and writes nothing.
C17_GetOrInsert ==
  [][(Called /\ ret'.op = "getOrInsert") =>
       LET o == ret'.this
           x == ret'.args[1]
       IN  /\ IF isNone(heap, o)
                THEN heap'[o] = SomeOf(x) /\ ret'.out = Return(x)
                ELSE heap' = heap /\ ret'.out = Return(heap[o].value)
           /\ isSome(heap', o)
           /\ \A n \in DOMAIN heap : n # o => heap'[n] = heap[n]]_vars

\* getOrInsert(x) has returned the held value of an Option that holds
\* another value than x.
C17_Witness ==
  /\ ret # Idle
  /\ ret.op = "getOrInsert"
  /\ heap[ret.this].phantom = "some"
  /\ heap[ret.this].value # ret.args[1]
  /\ ret.out = Return(heap[ret.this].value)

\* C18: replace(x), x no promise, leaves the receiver occupied(x) and
\* returns a new Option in the state the receiver had before the call.
C18_Replace ==
  [][(Called /\ ret'.op = "replace") =>
       LET o == ret'.this
           x == ret'.args[1]
       IN  /\ heap'[o] = SomeOf(x)
           /\ ReturnedNew
           /\ ret'.obj = heap[o]
           /\ \A n \in DOMAIN heap : n # o => heap'[n] = heap[n]]_vars

\* replace(x) has returned an Option occupied by the old value, which is not
\* x; the receiver holds x.
C18_Witness ==
  /\ ret # Idle
  /\ ret.op = "replace"
  /\ heap[ret.this] = SomeOf(ret.args[1])
  /\ ret.obj.phantom = "some"
  /\ ret.obj # heap[ret.this]

\* C19: in every state, every Option has the tag "some" exactly when its slot
\* holds a value and the tag "none" exactly when it holds nothing, so isSome()
\* and isNone() are each other's negation.
C19_TagAgreesWithSlot ==
  \A o \in DOMAIN heap :
    /\ heap[o].phantom \in {"some", "none"}
    /\ heap[o].phantom = "some" <=> ~isNothing(heap[o].value)
    /\ heap[o].phantom = "none" <=> isNothing(heap[o].value)
    /\ isSome(heap, o) <=> ~isNone(heap, o)
    /\ isSome(heap, o) <=> heap[o].phantom = "some"

\* The reaction of a deferred replace has written an Option that was empty:
\* it is occupied now, and the snapshot the caller kept is empty.
C19_Witness ==
  \E i \in DOMAIN deferred :
    LET d == deferred[i]
    IN  /\ d.writes = 1
        /\ heap[d.this].phantom = "some"
        /\ d.snap # 0
        /\ heap[d.snap] = Empty

====
